---------------------------- MODULE Spec2Model ----------------------------
(***************************************************************************)
(* A model of the cik crate: the validated CIK identifier, its            *)
(* constructors (parse, build, FromStr, TryFrom<u64>), validate, Display   *)
(* and the serde adapter (Serialize, CIKVisitor).                          *)
(*                                                                         *)
(* A u64 does not fit a TLC integer, so a u64 is a record of three base    *)
(* 10^7 limbs [hi, mid, lo] standing for hi*10^14 + mid*10^7 + lo.  A Rust *)
(* string is a sequence of characters; as_bytes gives its UTF-8 bytes,     *)
(* which is what len(), str::parse::<u64> and validate work on.            *)
(***************************************************************************)
EXTENDS Integers, Sequences

VARIABLES input, call, ret, calls, held, src

vars == <<input, call, ret, calls, held, src>>

---------------------------------------------------------------------------
(* Bounds of the input space. *)

\* longest run of one repeated character inside an input string
MaxPad == 11
\* longest free-form tail of an input string
MaxBody == 1
\* how far around each anchor value the integer inputs range
MaxOffset == 3

---------------------------------------------------------------------------
(* u64 arithmetic on limbs. *)

LimbBase == 10 * 1000 * 1000

U64(h, m, l) == [hi |-> h, mid |-> m, lo |-> l]

\* a small natural number (below 10^14, each limb given) as a u64
FromNat(n) == U64(0, n \div LimbBase, n % LimbBase)

U64_MAX == U64(184467, 4407370, 9551615)
I64_MAX == U64(92233, 7203685, 4775807)

Lt(a, b) ==
    \/ a.hi < b.hi
    \/ a.hi = b.hi /\ a.mid < b.mid
    \/ a.hi = b.hi /\ a.mid = b.mid /\ a.lo < b.lo

Le(a, b) == a = b \/ Lt(a, b)

\* x * 10 + d without the width check: hi may exceed the u64 range
Mul10Add(x, d) ==
    LET l == x.lo * 10 + d
        m == x.mid * 10 + (l \div LimbBase)
        h == x.hi * 10 + (m \div LimbBase)
    IN  U64(h, m % LimbBase, l % LimbBase)

\* x / 10 and x % 10
DivMod10(x) ==
    LET m == (x.hi % 10) * LimbBase + x.mid
        l == (m % 10) * LimbBase + x.lo
    IN  [quot |-> U64(x.hi \div 10, m \div 10, l \div 10), rem |-> l % 10]

\* x + k and x - k for a small k, clamped to the u64 range
AddSmall(x, k) ==
    LET l == x.lo + k
        m == x.mid + (l \div LimbBase)
        r == U64(x.hi + (m \div LimbBase), m % LimbBase, l % LimbBase)
    IN  IF Lt(U64_MAX, r) THEN U64_MAX ELSE r

SubSmall(x, k) ==
    IF x.lo >= k THEN U64(x.hi, x.mid, x.lo - k)
    ELSE IF x.mid > 0 THEN U64(x.hi, x.mid - 1, x.lo + LimbBase - k)
    ELSE IF x.hi > 0 THEN U64(x.hi - 1, LimbBase - 1, x.lo + LimbBase - k)
    ELSE U64(0, 0, 0)

---------------------------------------------------------------------------
(* Strings: a sequence of characters, each with its UTF-8 encoding. *)

DigitChars == <<"0", "1", "2", "3", "4", "5", "6", "7", "8", "9">>

\* the UTF-8 bytes of one character ("U+00E9" is the two-byte e-acute)
Utf8(c) ==
    CASE c = "U+00E9" -> <<195, 169>>
      [] c = " " -> <<32>>
      [] c = "+" -> <<43>>
      [] c = "-" -> <<45>>
      [] c = "/" -> <<47>>
      [] c = ":" -> <<58>>
      [] c = "a" -> <<97>>
      [] OTHER -> <<47 + (CHOOSE i \in 1..10 : DigitChars[i] = c)>>

RECURSIVE as_bytes(_)
as_bytes(s) == IF s = <<>> THEN <<>> ELSE Utf8(Head(s)) \o as_bytes(Tail(s))

\* str::len: the length in bytes
len(s) == Len(as_bytes(s))

\* u64's Display: the decimal digits, most significant first, no padding
RECURSIVE FmtU64(_)
FmtU64(n) ==
    LET qr == DivMod10(n)
    IN  IF qr.quot = U64(0, 0, 0) THEN <<DigitChars[qr.rem + 1]>>
        ELSE FmtU64(qr.quot) \o <<DigitChars[qr.rem + 1]>>

\* the digit loop of u64::from_str_radix(.., 10)
RECURSIVE ParseDigits(_, _)
ParseDigits(digits, acc) ==
    IF digits = <<>> THEN [ok |-> TRUE, v |-> acc]
    ELSE LET c == Head(digits)
         IN  IF c \notin 48..57 THEN [ok |-> FALSE, kind |-> "InvalidDigit"]
             ELSE LET nxt == Mul10Add(acc, c - 48)
                  IN  IF Lt(U64_MAX, nxt) THEN [ok |-> FALSE, kind |-> "PosOverflow"]
                      ELSE ParseDigits(Tail(digits), nxt)

\* str::parse::<u64>: an optional leading '+', then decimal digits only
FromStrU64(b) ==
    IF b = <<>> THEN [ok |-> FALSE, kind |-> "Empty"]
    ELSE IF b = <<43>> \/ b = <<45>> THEN [ok |-> FALSE, kind |-> "InvalidDigit"]
    ELSE ParseDigits(IF Head(b) = 43 THEN Tail(b) ELSE b, U64(0, 0, 0))

---------------------------------------------------------------------------
(* The error type and the identifier type. *)

InvalidLength(n) == [kind |-> "InvalidLength", was |-> n]
InvalidFormat(s) == [kind |-> "InvalidFormat", was |-> s]
InvalidValue(v) == [kind |-> "InvalidValue", was |-> v]

\* CIKError's Display
ErrorFmt(e) ==
    CASE e.kind = "InvalidLength" ->
           <<"invalid length ", e.was, " bytes when expecting 1 to 10">>
      [] e.kind = "InvalidFormat" ->
           <<"invalid format ", e.was, " when expecting integer">>
      [] e.kind = "InvalidValue" ->
           <<"invalid value ", e.was,
             " when expecting positive number up to 9,999,999,999">>

\* the tuple struct CIK(u64)
CIK(v) == <<v>>
NoCIK == <<>>

Ok(c) == [tag |-> "Ok", cik |-> c]
Err(e) == [tag |-> "Err", err |-> e]

\* what a function did: its return value and the calls it made, in order
Ran(r, cs) == [ret |-> r, calls |-> cs]

CIK_MIN == U64(0, 0, 1)
CIK_MAX == U64(0, 999, 9999999)

value(c) == c[1]

\* Display padding the number with zeros to 10 digits ("{:010}")
to_string_padded(c) ==
    LET d == FmtU64(c[1])
    IN  Ran([tag |-> "String",
             s |-> [i \in 1..(10 - Len(d)) |-> "0"] \o d],
            <<"to_string", "fmt">>)

to_string(c) == Ran([tag |-> "String", s |-> FmtU64(c[1])], <<"to_string", "fmt">>)

---------------------------------------------------------------------------
(* The validator / constructor. *)

\* build without the upper limit
build_no_upper_bound(v) ==
    IF ~Le(CIK_MIN, v)
    THEN Ran(Err(InvalidValue(v)), <<"build">>)
    ELSE Ran(Ok(CIK(v)), <<"build">>)

\* build with the range 1..9_999_999_999 taken exclusive of its end
build_exclusive_max(v) ==
    IF ~(Le(CIK_MIN, v) /\ Lt(v, CIK_MAX))
    THEN Ran(Err(InvalidValue(v)), <<"build">>)
    ELSE Ran(Ok(CIK(v)), <<"build">>)

build(v) ==
    IF ~(Le(CIK_MIN, v) /\ Le(v, CIK_MAX))
    THEN Ran(Err(InvalidValue(v)), <<"build">>)
    ELSE Ran(Ok(CIK(v)), <<"build">>)

\* parse measuring the length in characters, not bytes
parse_counts_chars(s) ==
    IF Len(s) = 0 \/ Len(s) > 10
    THEN Ran(Err(InvalidLength(Len(s))), <<"parse">>)
    ELSE LET r == FromStrU64(as_bytes(s))
         IN  IF r.ok
             THEN LET b == build(r.v)
                  IN  Ran(b.ret, <<"parse", "str::parse">> \o b.calls)
             ELSE Ran(Err(InvalidFormat(s)), <<"parse", "str::parse">>)

\* parse refusing a numeral with a leading zero
parse_rejects_leading_zero(s) ==
    IF len(s) = 0 \/ len(s) > 10
    THEN Ran(Err(InvalidLength(len(s))), <<"parse">>)
    ELSE LET r == FromStrU64(as_bytes(s))
         IN  IF r.ok /\ ~(Len(s) > 1 /\ s[1] = "0")
             THEN LET b == build(r.v)
                  IN  Ran(b.ret, <<"parse", "str::parse">> \o b.calls)
             ELSE Ran(Err(InvalidFormat(s)), <<"parse", "str::parse">>)

parse(s) ==
    IF len(s) = 0 \/ len(s) > 10
    THEN Ran(Err(InvalidLength(len(s))), <<"parse">>)
    ELSE LET r == FromStrU64(as_bytes(s))
         IN  IF r.ok
             THEN LET b == build(r.v)
                  IN  Ran(b.ret, <<"parse", "str::parse">> \o b.calls)
             ELSE Ran(Err(InvalidFormat(s)), <<"parse", "str::parse">>)

\* validate also refusing the numerals of zero, as parse does
validate_rejects_zero(s) ==
    IF len(s) = 0 \/ len(s) > 10
    THEN Ran([tag |-> "Bool", val |-> FALSE], <<"validate", "println">>)
    ELSE LET b == as_bytes(s)
         IN  Ran([tag |-> "Bool",
                  val |-> /\ \A i \in 1..Len(b) : b[i] >= 48 /\ b[i] <= 57
                          /\ \E i \in 1..Len(b) : b[i] # 48],
                 <<"validate">>)

validate(s) ==
    IF len(s) = 0 \/ len(s) > 10
    THEN Ran([tag |-> "Bool", val |-> FALSE], <<"validate", "println">>)
    ELSE LET b == as_bytes(s)
         IN  Ran([tag |-> "Bool",
                  val |-> \A i \in 1..Len(b) : b[i] >= 48 /\ b[i] <= 57],
                 <<"validate">>)

from_str(s) == LET p == parse(s) IN Ran(p.ret, <<"from_str">> \o p.calls)

try_from(v) == LET b == build(v) IN Ran(b.ret, <<"try_from">> \o b.calls)

---------------------------------------------------------------------------
(* The serde adapter.  An i64 is a sign and a magnitude. *)

\* de::Error::custom(format!(..)): the adapter's error, with its message
Custom(template, shown, reason) ==
    [kind |-> "Custom", template |-> template, input |-> shown, reason |-> reason]

Panic == [tag |-> "Panic"]

serialize(c) == Ran([tag |-> "U64", v |-> c[1]], <<"serialize", "serialize_u64">>)

visit_u64(v) ==
    LET b == build(v)
    IN  Ran(IF b.ret.tag = "Ok" THEN Ok(b.ret.cik)
            ELSE Err(Custom("Cannot deserialize {}: {}", v, ErrorFmt(b.ret.err))),
            <<"visit_u64">> \o b.calls)

\* u64::try_from(i64): fails exactly on a negative value
TryFromI64(v) == IF v.neg THEN [ok |-> FALSE] ELSE [ok |-> TRUE, v |-> v.mag]

\* visit_i64 converting without the test for a negative value
visit_i64_unguarded(v) ==
    LET t == TryFromI64(v)
    IN  IF ~t.ok THEN Ran(Panic, <<"visit_i64", "u64::try_from", "unwrap">>)
        ELSE LET u == visit_u64(t.v)
             IN  Ran(u.ret, <<"visit_i64", "u64::try_from", "unwrap">> \o u.calls)

visit_i64(v) ==
    IF v.neg
    THEN Ran(Err(Custom("Cannot deserialize {}: Negative values not allowed", v,
                        <<>>)),
             <<"visit_i64">>)
    ELSE LET t == TryFromI64(v)
         IN  IF ~t.ok THEN Ran(Panic, <<"visit_i64", "u64::try_from", "unwrap">>)
             ELSE LET u == visit_u64(t.v)
                  IN  Ran(u.ret, <<"visit_i64", "u64::try_from", "unwrap">> \o u.calls)

\* visit_str reading the number itself and going to build, past parse's
\* length check
visit_str_no_length_check(s) ==
    LET r == FromStrU64(as_bytes(s))
    IN  IF ~r.ok
        THEN Ran(Err(Custom("Cannot deserialize {}: {}", s,
                            ErrorFmt(InvalidFormat(s)))),
                 <<"visit_str", "str::parse">>)
        ELSE LET b == build(r.v)
             IN  Ran(IF b.ret.tag = "Ok" THEN Ok(b.ret.cik)
                     ELSE Err(Custom("Cannot deserialize {}: {}", s,
                                     ErrorFmt(b.ret.err))),
                     <<"visit_str", "str::parse">> \o b.calls)

visit_str(s) ==
    LET p == parse(s)
    IN  Ran(IF p.ret.tag = "Ok" THEN Ok(p.ret.cik)
            ELSE Err(Custom("Cannot deserialize {}: {}", s, ErrorFmt(p.ret.err))),
            <<"visit_str">> \o p.calls)

---------------------------------------------------------------------------
(* The inputs. *)

Alphabet == {"0", "1", "9", "+", "-", " ", "/", ":", "a", "U+00E9"}
PadChars == {"0", "9", "U+00E9"}
Signs == {<<>>, <<"+">>, <<"-">>}

Rep(c, k) == [i \in 1..k |-> c]

Bodies == UNION {[1..n -> Alphabet] : n \in 0..MaxBody}

\* the strings the documentation and the tests name
Examples ==
    { <<"3", "2", "0", "1", "9", "3">>,
      <<"0", "0", "0", "0", "3", "2", "0", "1", "9", "3">>,
      <<"1", "0", "0", "0", "0", "0", "0", "0", "0", "0", "0">>,
      <<"0", "0", "0", "0", "0", "0", "0", "0", "0", "0", "1">>,
      <<"1", "2", "3", "4", "5", "6", "7", "8", "9", "0">>,
      <<"1", "a", "1">>, <<"1", " ", "1">>, <<"+", "+", "1">>, <<"1", "+">>,
      <<"-", "1">>, <<"0">>, <<>> }

StrInputs ==
    Examples \cup
    { sg \o Rep(c, k) \o b : sg \in Signs, c \in PadChars, k \in 0..MaxPad, b \in Bodies }

Anchors ==
    { U64(0, 0, 0), FromNat(320193), U64(0, 1, 0), U64(0, 100, 0), CIK_MAX,
      U64(1, 0, 0), I64_MAX, U64_MAX }

U64Inputs ==
    UNION { {AddSmall(a, k), SubSmall(a, k)} : a \in Anchors, k \in 0..MaxOffset }

I64Inputs ==
    { [neg |-> FALSE, mag |-> m] : m \in {u \in U64Inputs : Le(u, I64_MAX)} } \cup
    { [neg |-> TRUE, mag |-> m] :
        m \in {u \in U64Inputs : Lt(U64(0, 0, 0), u) /\ Le(u, AddSmall(I64_MAX, 1))} }

Inputs ==
    { [kind |-> "str", val |-> s] : s \in StrInputs } \cup
    { [kind |-> "u64", val |-> v] : v \in U64Inputs } \cup
    { [kind |-> "i64", val |-> v] : v \in I64Inputs }

---------------------------------------------------------------------------
(* The state machine: a caller holding one input applies the operations to  *)
(* it, keeps the identifier a constructor returned (held), and may feed an  *)
(* identifier's rendering or serialization back in (src is the identifier   *)
(* it came from).                                                           *)

Init ==
    /\ input \in Inputs
    /\ call = [fn |-> "none", arg |-> <<>>]
    /\ ret = [tag |-> "None"]
    /\ calls = <<>>
    /\ held = NoCIK
    /\ src = NoCIK

\* a constructor was applied: the caller keeps the identifier, if any
Construct(fn, arg, r, from) ==
    /\ call' = [fn |-> fn, arg |-> arg]
    /\ ret' = r.ret
    /\ calls' = r.calls
    /\ held' = IF r.ret.tag = "Ok" THEN r.ret.cik ELSE NoCIK
    /\ src' = from
    /\ UNCHANGED input

\* an operation that constructs nothing was applied
Observe(fn, arg, r) ==
    /\ call' = [fn |-> fn, arg |-> arg]
    /\ ret' = r.ret
    /\ calls' = r.calls
    /\ src' = NoCIK
    /\ UNCHANGED <<input, held>>

Parse == input.kind = "str" /\ Construct("parse", input.val, parse(input.val), NoCIK)

Build == input.kind = "u64" /\ Construct("build", input.val, build(input.val), NoCIK)

Validate == input.kind = "str" /\ Observe("validate", input.val, validate(input.val))

FromStr ==
    input.kind = "str" /\ Construct("from_str", input.val, from_str(input.val), NoCIK)

TryFrom ==
    input.kind = "u64" /\ Construct("try_from", input.val, try_from(input.val), NoCIK)

VisitU64 ==
    input.kind = "u64" /\ Construct("visit_u64", input.val, visit_u64(input.val), NoCIK)

VisitI64 ==
    input.kind = "i64" /\ Construct("visit_i64", input.val, visit_i64(input.val), NoCIK)

VisitStr ==
    input.kind = "str" /\ Construct("visit_str", input.val, visit_str(input.val), NoCIK)

Value ==
    /\ held # NoCIK
    /\ Observe("value", held, Ran([tag |-> "U64", v |-> value(held)], <<"value">>))

ToString == held # NoCIK /\ Observe("to_string", held, to_string(held))

Serialize == held # NoCIK /\ Observe("serialize", held, serialize(held))

\* the rendering of an identifier is parsed back
ParseRendered ==
    call.fn = "to_string" /\ Construct("parse", ret.s, parse(ret.s), call.arg)

\* the rendering of an identifier is deserialized as a string
VisitRendered ==
    call.fn = "to_string" /\ Construct("visit_str", ret.s, visit_str(ret.s), call.arg)

\* the serialization of an identifier is deserialized as a number
VisitSerialized ==
    call.fn = "serialize" /\ Construct("visit_u64", ret.v, visit_u64(ret.v), call.arg)

Next ==
    \/ Parse
    \/ Build
    \/ Validate
    \/ FromStr
    \/ TryFrom
    \/ VisitU64
    \/ VisitI64
    \/ VisitStr
    \/ Value
    \/ ToString
    \/ Serialize
    \/ ParseRendered
    \/ VisitRendered
    \/ VisitSerialized

Spec == Init /\ [][Next]_vars

---------------------------------------------------------------------------
(* The vocabulary of the properties, stated on the text and the number,    *)
(* not through the code's own helpers.                                     *)

Constructors == {"parse", "build", "from_str", "try_from", "visit_u64", "visit_i64",
                 "visit_str"}

AsciiDigits == {DigitChars[i] : i \in 1..10}

AllDigits(s) == \A i \in 1..Len(s) : s[i] \in AsciiDigits

AllZeros(s) == \A i \in 1..Len(s) : s[i] = "0"

\* 1 <= v <= 9,999,999,999, read off the limbs
InCikRange(v) == v.hi = 0 /\ v.mid < 1000 /\ (v.mid > 0 \/ v.lo >= 1)

DigitOf(c) == (CHOOSE i \in 1..10 : DigitChars[i] = c) - 1

\* the number a string of at most 7 digits denotes
RECURSIVE NatOf(_)
NatOf(s) ==
    IF s = <<>> THEN 0
    ELSE NatOf(SubSeq(s, 1, Len(s) - 1)) * 10 + DigitOf(s[Len(s)])

\* the number a string of at most 14 digits denotes
DecValue(s) ==
    IF Len(s) <= 7 THEN U64(0, 0, NatOf(s))
    ELSE U64(0, NatOf(SubSeq(s, 1, Len(s) - 7)), NatOf(SubSeq(s, Len(s) - 6, Len(s))))

\* two results of a constructor are the same result
SameResult(a, b) ==
    /\ a.tag = b.tag
    /\ a.tag = "Ok" => a.cik = b.cik
    /\ a.tag = "Err" => a.err.kind = b.err.kind /\ a.err.was = b.err.was

IsErr(r, kind) == r.tag = "Err" /\ r.err.kind = kind

Has(cs, name) == \E i \in 1..Len(cs) : cs[i] = name

Ten(c) == Rep(c, 10)

---------------------------------------------------------------------------
(* The properties. *)

\* C1: every identifier a construction route returns, and so every
\* identifier a caller holds, has a value v with 1 <= v <= 9,999,999,999.
C1_IdentifierInRange ==
    /\ (call.fn \in Constructors /\ ret.tag = "Ok") => InCikRange(value(ret.cik))
    /\ held # NoCIK => InCikRange(value(held))

C1_Witness ==
    call.fn = "visit_str" /\ ret.tag = "Ok" /\ value(ret.cik) = CIK_MAX

\* C2: build(v) succeeds with value() = v when 1 <= v <= 9,999,999,999 and
\* fails with InvalidValue carrying v otherwise.
C2_BuildContract ==
    call.fn = "build" =>
        IF InCikRange(call.arg)
        THEN ret.tag = "Ok" /\ value(ret.cik) = call.arg
        ELSE IsErr(ret, "InvalidValue") /\ ret.err.was = call.arg

C2_Witness ==
    call.fn = "build" /\ call.arg = U64(0, 1000, 0) /\ IsErr(ret, "InvalidValue")

\* C3: parse of a string of length 1 to 10 holding a character that is not an
\* ASCII digit fails with InvalidFormat carrying the string.  Stated for the
\* strings of 1 to 10 bytes, which are among those of 1 to 10 characters.
C3_NonDigitIsFormatError ==
    (call.fn = "parse" /\ len(call.arg) \in 1..10 /\ ~AllDigits(call.arg)) =>
        IsErr(ret, "InvalidFormat") /\ ret.err.was = call.arg

\* C4 as claimed: parse of a string that is empty or longer than 10
\* characters fails with InvalidLength carrying the number of characters,
\* before any numeric interpretation.
C4_LengthErrorCarriesCharCount ==
    (call.fn = "parse" /\ (Len(call.arg) = 0 \/ Len(call.arg) > 10)) =>
        /\ IsErr(ret, "InvalidLength")
        /\ ret.err.was = Len(call.arg)
        /\ ~Has(calls, "str::parse")

\* C4 as amended: parse of a string of 0 or more than 10 bytes, so of every
\* string that is empty or longer than 10 characters, fails with
\* InvalidLength carrying the length in bytes, before any numeric
\* interpretation and whatever the characters are.
C4_LengthErrorCarriesByteLen ==
    call.fn = "parse" =>
        /\ (Len(call.arg) = 0 \/ Len(call.arg) > 10) =>
               (len(call.arg) = 0 \/ len(call.arg) > 10)
        /\ (len(call.arg) = 0 \/ len(call.arg) > 10) =>
               /\ IsErr(ret, "InvalidLength")
               /\ ret.err.was = len(call.arg)
               /\ calls = <<"parse">>

C4_Witness ==
    /\ call.fn = "parse"
    /\ call.arg = Rep("U+00E9", 11)
    /\ IsErr(ret, "InvalidLength")
    /\ ret.err.was = 22

\* C5: parse of a string of 1 to 10 ASCII digits returns what build returns
\* for the number the digits denote: leading zeros are accepted and an
\* all-zero string fails with InvalidValue carrying 0.
C5_DigitsParseAsBuild ==
    (call.fn = "parse" /\ Len(call.arg) \in 1..10 /\ AllDigits(call.arg)) =>
        /\ SameResult(ret, build(DecValue(call.arg)).ret)
        /\ Has(calls, "build")
        /\ AllZeros(call.arg) =>
               IsErr(ret, "InvalidValue") /\ ret.err.was = U64(0, 0, 0)
        /\ ~AllZeros(call.arg) =>
               ret.tag = "Ok" /\ value(ret.cik) = DecValue(call.arg)

C5_Witness ==
    /\ call.fn = "parse"
    /\ call.arg = <<"0", "0", "0", "0", "3", "2", "0", "1", "9", "3">>
    /\ ret.tag = "Ok"
    /\ value(ret.cik) = FromNat(320193)

\* C6: the rendering of an identifier is the decimal numeral of its value
\* with no leading zero, and parsing the rendering gives the identifier back.
C6_RoundTrip ==
    /\ call.fn = "to_string" =>
           /\ Len(ret.s) \in 1..10
           /\ AllDigits(ret.s)
           /\ ret.s[1] # "0"
           /\ DecValue(ret.s) = value(call.arg)
    /\ (call.fn = "parse" /\ src # NoCIK) => ret.tag = "Ok" /\ ret.cik = src

C6_Witness ==
    /\ call.fn = "parse"
    /\ src = CIK(U64(0, 100, 0))
    /\ call.arg = <<"1", "0", "0", "0", "0", "0", "0", "0", "0", "0">>
    /\ ret.tag = "Ok"

\* C7: validate(s) is true exactly when s is 1 to 10 characters long and all
\* of them are ASCII digits; it is true of the all-zero strings, which parse
\* rejects.
C7_ValidateIsSyntaxOnly ==
    call.fn = "validate" =>
        /\ ret.val <=> (Len(call.arg) \in 1..10 /\ AllDigits(call.arg))
        /\ (Len(call.arg) \in 1..10 /\ AllZeros(call.arg)) =>
               ret.val /\ parse(call.arg).ret.tag = "Err"

C7_Witness ==
    call.fn = "validate" /\ call.arg = Ten("0") /\ ret.val

\* C8: whenever parse(s) succeeds, validate(s) is true.
C8_ParseImpliesValidate ==
    (call.fn = "parse" /\ ret.tag = "Ok") => validate(call.arg).ret.val

\* C9: deserialization succeeds exactly when build (for a number) or parse
\* (for a string) does, with the same identifier; the serialization of an
\* identifier is the number value(), and deserializing that number or the
\* identifier's rendering gives the identifier back.
C9_DeserializeAgrees ==
    /\ call.fn = "visit_u64" =>
           LET b == build(call.arg).ret
           IN  ret.tag = b.tag /\ (b.tag = "Ok" => ret.cik = b.cik)
    /\ (call.fn = "visit_i64" /\ ~call.arg.neg) =>
           LET b == build(call.arg.mag).ret
           IN  ret.tag = b.tag /\ (b.tag = "Ok" => ret.cik = b.cik)
    /\ call.fn = "visit_str" =>
           LET p == parse(call.arg).ret
           IN  ret.tag = p.tag /\ (p.tag = "Ok" => ret.cik = p.cik)
    /\ call.fn = "serialize" => ret.tag = "U64" /\ ret.v = value(call.arg)
    /\ (call.fn \in {"visit_u64", "visit_str"} /\ src # NoCIK) =>
           ret.tag = "Ok" /\ ret.cik = src /\ ret.cik = build(value(src)).ret.cik

C9_Witness ==
    /\ call.fn = "visit_str"
    /\ src = CIK(FromNat(320193))
    /\ call.arg = <<"3", "2", "0", "1", "9", "3">>
    /\ ret.tag = "Ok"

\* C10: deserializing a negative integer fails with the adapter's error
\* without build being called; a failure of build or parse comes back as the
\* adapter's error, naming the input; and no route panics, the conversion of
\* a non-negative i64 included.
C10_AdapterErrors ==
    /\ call.fn \in {"visit_u64", "visit_i64", "visit_str"} =>
           /\ ret.tag \in {"Ok", "Err"}
           /\ ret.tag = "Err" =>
                  /\ ret.err.kind = "Custom"
                  /\ ret.err.input =
                         IF call.fn = "visit_i64" /\ ~call.arg.neg THEN call.arg.mag
                         ELSE call.arg
    /\ (call.fn = "visit_i64" /\ call.arg.neg) =>
           /\ ret.tag = "Err"
           /\ ret.err.template = "Cannot deserialize {}: Negative values not allowed"
           /\ ~Has(calls, "build")
    /\ (call.fn = "visit_i64" /\ ~call.arg.neg) =>
           Has(calls, "u64::try_from") /\ Has(calls, "build")

C10_Witness ==
    /\ call.fn = "visit_i64"
    /\ call.arg = [neg |-> TRUE, mag |-> U64(0, 0, 1)]
    /\ ret.tag = "Err"

===========================================================================
